---- MODULE Spec2Model ----
(***************************************************************************)
(* Retrieval-augmented question answering over one document:               *)
(*   PDFProcessor.split_text      (src/core/pdf_processor.py)              *)
(*   OllamaClient.get_embedding / generate  (src/core/ollama_client.py)    *)
(*   DocumentQA.load_document / answer_question (src/core/document_qa.py)  *)
(*                                                                         *)
(* A document text is carried in two views: chars, its characters (all     *)
(* that split_text and the prompt depend on), and lines, the lines of its  *)
(* head (all that extract_title and extract_authors depend on).            *)
(* Strings are sequences of character codes (naturals); the literal text   *)
(* fragments the code inserts (separators, prompt headings) are negative   *)
(* codes.  Messages returned to the caller are tuples of TLA+ strings.     *)
(* Similarities are exact numbers, so two equal cosines are equal floats.  *)
(***************************************************************************)
EXTENDS Integers, Sequences, FiniteSets, TLC

VARIABLES
    document_text,      \* DocumentQA.document_text
    title,              \* DocumentQA.title
    authors,            \* DocumentQA.authors (the lines of that text)
    chunks,             \* DocumentQA.chunks
    embeddings,         \* DocumentQA.embeddings
    emb_src,            \* history: emb_src[i] is the text embeddings[i] was computed from
    pc,                 \* position of the running DocumentQA call ("idle" when none)
    load_args,          \* chunk_size / overlap of the running or last load_document
    load_i,             \* load_document: index of the next chunk of the for loop
    load_outs,          \* history: what get_embedding returned for each chunk of the load
    load_status,        \* history: "none", or how far the last load_document got
    prev_load,          \* history: what the load_document call just before the running or
                        \* last one left, when both calls have the same arguments
    question,           \* answer_question: its question argument
    n_chunks,           \* answer_question: its n_chunks argument
    question_embedding, \* answer_question: local question_embedding
    similarities,       \* answer_question: local similarities
    top_indices,        \* answer_question: local top_indices (0-based, as in the code)
    prompt,             \* answer_question: local prompt
    calls,              \* history: backend calls made by the running or last call
    result,             \* outcome of the last finished call
    split_in,           \* arguments of the last direct split_text call
    split_out,          \* outcome of the last direct split_text call
    meta_in,            \* the lines given to the last direct extract_title / extract_authors
    meta_out,           \* what those two calls returned, with the lines extract_authors
                        \* had collected (duplicates removed) when it returned and
                        \* its potential_author_lines after each of its approaches
    document_qa,        \* MainTab.document_qa: None (0) or a reference into heap
    heap,               \* the DocumentQA objects created so far
    threads,            \* the background threads started so far, each with its position,
                        \* its locals and the history of what it did
    after_queue,        \* callbacks handed to self.after(0, ...) and not yet run
    status_bar,         \* the message the status bar shows
    answer_text,        \* the content of the answer box
    doc_info,           \* what the document info panel shows
    monitoring,         \* MainTab.resource_monitor.monitoring
    log_entries,        \* Logger.log_entries (the entries after SESSION_START)
    overlapped,         \* history: two background threads have been in flight at once
    split_pc,           \* split_text run line by line: where the call is
    split_i,            \* its loop variable i
    split_chunks,       \* its local list chunks
    timestamps,         \* ResourceMonitor.timestamps
    cpu_history,        \* ResourceMonitor.cpu_history
    ram_history,        \* ResourceMonitor.ram_history
    gpu_history,        \* ResourceMonitor.gpu_history
    start_time,         \* ResourceMonitor.start_time: None (0) or the start call that set it
    loops               \* the _monitor_loop threads started so far, each with its position

vars == <<document_text, title, authors, chunks, embeddings, emb_src, pc, load_args,
          load_i, load_outs, load_status, prev_load, question, n_chunks,
          question_embedding, similarities, top_indices, prompt, calls, result,
          split_in, split_out, meta_in, meta_out, document_qa, heap, threads,
          after_queue, status_bar, answer_text, doc_info, monitoring, log_entries,
          overlapped, split_pc, split_i, split_chunks, timestamps, cpu_history,
          ram_history, gpu_history, start_time, loops>>

session == <<document_text, title, authors, chunks, embeddings, emb_src>>
loadLocals == <<load_args, load_i, load_outs, load_status>>
askLocals == <<question, n_chunks, question_embedding, similarities, top_indices, prompt>>
splitVars == <<split_in, split_out>>
metaVars == <<meta_in, meta_out>>
loopVars == <<split_pc, split_i, split_chunks>>
\* the user interface's variables the resource monitor leaves alone
uiLeft == <<document_qa, heap, threads, after_queue, status_bar, answer_text, doc_info,
            log_entries, overlapped>>
monitorVars == <<timestamps, cpu_history, ram_history, gpu_history, start_time, loops>>
uiVars == <<document_qa, heap, threads, after_queue, status_bar, answer_text, doc_info,
            monitoring, log_entries, overlapped>>
coreVars == <<session, pc, loadLocals, prev_load, askLocals, calls, result, splitVars,
              metaVars, loopVars>>

----------------------------------------------------------------------------
(* Bounds and program constants                                            *)

\* longest document text drawn
MaxTextLen == 200

\* most lines of a text given to extract_title / extract_authors directly
MaxHeadLines == 4

\* most blank lines in front of the title of a text given to extract_title
MaxPad == 11

\* most background threads the user interface starts in one run
MaxThreads == 2

\* length of the long document loaded through the user interface
UiTextLen == 950

\* most ResourceMonitor.start calls in one run of the monitor on its own
MaxStarts == 2

\* a _monitor_loop begins no further iteration once timestamps is this long
MaxSamples == 2

\* document_qa.py:23  default chunk_size and overlap of load_document
DefaultChunkSize == 1000
DefaultOverlap == 200

\* pdf_processor.py:28  "if len(chunk) >= 100"
MinChunkLen == 100

\* document_qa.py:38  default n_chunks of answer_question
DefaultNChunks == 3

\* ollama_client.py:33,48  the status the client treats as success
StatusOK == 200

Min(a, b) == IF a <= b THEN a ELSE b
Max(a, b) == IF a >= b THEN a ELSE b

----------------------------------------------------------------------------
(* Python sequence primitives                                              *)

\* s[a:b] for a >= 0 and any integer b: a negative b counts from the end,
\* both ends are clamped to the sequence
PySlice(s, a, b) ==
    LET n == Len(s)
        hi == IF b < 0 THEN Max(b + n, 0) ELSE Min(b, n)
        lo == Min(a, n)
    IN  IF lo >= hi THEN << >> ELSE SubSeq(s, lo + 1, hi)

\* s[-k:] for any integer k: k = 0 gives s[0:], i.e. the whole sequence
PyTail(s, k) ==
    LET n == Len(s)
        lo == IF -k < 0 THEN Max(n - k, 0) ELSE Min(-k, n)
    IN  IF lo >= n THEN << >> ELSE SubSeq(s, lo + 1, n)

\* s[::-1]
Reverse(s) == [i \in 1..Len(s) |-> s[Len(s) + 1 - i]]

----------------------------------------------------------------------------
(* PDFProcessor.split_text                                                 *)

Step_sum(chunk_size, overlap) == chunk_size + overlap

\* the step of range(0, len(text), chunk_size - overlap)
Step(chunk_size, overlap) == chunk_size - overlap

RangeRaises_never(step) == FALSE

\* range(0, n, step) raises ValueError for a zero step
RangeRaises(step) == step = 0

KeepChunk_gt(chunk) == Len(chunk) > MinChunkLen

\* "if len(chunk) >= 100"
KeepChunk(chunk) == Len(chunk) >= MinChunkLen

\* range(0, stop, step) as the sequence of its values; empty for a negative
\* step or stop = 0 (a zero step raises, see RangeRaises)
PyRange(stop, step) ==
    IF step <= 0 \/ stop <= 0 THEN << >>
    ELSE [k \in 1..((stop + step - 1) \div step) |-> (k - 1) * step]

\* the value split_text returns when range() does not raise: the for loop
\* takes text[i:i + chunk_size] for every i of the range, in order, and
\* appends those that pass the length test
split_text(text, chunk_size, overlap) ==
    LET starts == PyRange(Len(text), Step(chunk_size, overlap))
        windows == [k \in 1..Len(starts) |->
                        PySlice(text, starts[k], starts[k] + chunk_size)]
    IN  SelectSeq(windows, KeepChunk)

\* the outcome of a split_text call
SplitOutcome(text, chunk_size, overlap) ==
    IF RangeRaises(Step(chunk_size, overlap))
    THEN [kind |-> "raise", value |-> <<"ValueError">>]
    ELSE [kind |-> "return", value |-> split_text(text, chunk_size, overlap)]

----------------------------------------------------------------------------
(* PDFProcessor.extract_title / extract_authors                            *)
(*                                                                         *)
(* Both functions work on text.split('\n') and look at each line only      *)
(* through the tests below, so a line is the record of its text and of     *)
(* what each test of the code gives on that text:                          *)
(*   len            len(line)                                              *)
(*   label          re.search(r'\b(authors?:|authors?)[^a-z]', lower)  :68 *)
(*   section_end    re.search(r'\b(abstract|introduction|keywords)[:.]?\s*$', lower) :75 *)
(*   noise          re.search(r'\b(abstract|keywords|copyright|proceedings)\b', lower) :91,116,135 *)
(*   email          re.search(email_pattern, line)                     :95 *)
(*   affiliation    any(marker in lower for marker in affiliation_markers) :104 *)
(*   commas, parts  line.count(','), len(line.split(','))             :121 *)
(*   and_amp        ' and ' in lower or ' & ' in line                 :120 *)
(*   superscript    either re.search of line 125                           *)
(*   abstract_eol   re.search(r'\b(abstract)[:.]?\s*$', lower)        :141 *)
(*   unlabelled     re.sub(r'^authors?:?\s*', '', line, IGNORECASE)   :171 *)
(*   meta_marker    any(marker in lower for ['doi:', ... 'http'])     :193 *)
(*   journal_marker any(marker in lower for ['journal of', ...])      :197 *)
(*   date           re.match(r'^[a-zA-Z]+ \d{1,2}(st|nd|rd|th)?, \d{4}$') :201 *)
(* The lines carry no blanks at either end, so line.strip() is the line,   *)
(* and the head of the text fits in text[:1500].                           *)

LnBlank ==
    [text |-> "", len |-> 0, label |-> FALSE, section_end |-> FALSE,
     noise |-> FALSE, email |-> FALSE, affiliation |-> FALSE, commas |-> 0,
     parts |-> 1, and_amp |-> FALSE, superscript |-> FALSE,
     abstract_eol |-> FALSE, unlabelled |-> "", meta_marker |-> FALSE,
     journal_marker |-> FALSE, date |-> FALSE]

LnTitle ==
    [text |-> "Deep Learning for Protein Folding", len |-> 33, label |-> FALSE,
     section_end |-> FALSE, noise |-> FALSE, email |-> FALSE,
     affiliation |-> FALSE, commas |-> 0, parts |-> 1, and_amp |-> FALSE,
     superscript |-> FALSE, abstract_eol |-> FALSE,
     unlabelled |-> "Deep Learning for Protein Folding", meta_marker |-> FALSE,
     journal_marker |-> FALSE, date |-> FALSE]

LnNames ==
    [text |-> "Alice Smith, Bob Jones", len |-> 22, label |-> FALSE,
     section_end |-> FALSE, noise |-> FALSE, email |-> FALSE,
     affiliation |-> FALSE, commas |-> 1, parts |-> 2, and_amp |-> FALSE,
     superscript |-> FALSE, abstract_eol |-> FALSE,
     unlabelled |-> "Alice Smith, Bob Jones", meta_marker |-> FALSE,
     journal_marker |-> FALSE, date |-> FALSE]

LnAffil ==
    [text |-> "University of Example", len |-> 21, label |-> FALSE,
     section_end |-> FALSE, noise |-> FALSE, email |-> FALSE,
     affiliation |-> TRUE, commas |-> 0, parts |-> 1, and_amp |-> FALSE,
     superscript |-> FALSE, abstract_eol |-> FALSE,
     unlabelled |-> "University of Example", meta_marker |-> FALSE,
     journal_marker |-> FALSE, date |-> FALSE]

LnAbstract ==
    [text |-> "Abstract", len |-> 8, label |-> FALSE, section_end |-> TRUE,
     noise |-> TRUE, email |-> FALSE, affiliation |-> FALSE, commas |-> 0,
     parts |-> 1, and_amp |-> FALSE, superscript |-> FALSE,
     abstract_eol |-> TRUE, unlabelled |-> "Abstract", meta_marker |-> FALSE,
     journal_marker |-> FALSE, date |-> FALSE]

LnLabel ==
    [text |-> "Authors:", len |-> 8, label |-> TRUE, section_end |-> FALSE,
     noise |-> FALSE, email |-> FALSE, affiliation |-> FALSE, commas |-> 0,
     parts |-> 1, and_amp |-> FALSE, superscript |-> FALSE,
     abstract_eol |-> FALSE, unlabelled |-> "", meta_marker |-> FALSE,
     journal_marker |-> FALSE, date |-> FALSE]

LnLabelled ==
    [text |-> "Authors: Alice Smith", len |-> 20, label |-> TRUE,
     section_end |-> FALSE, noise |-> FALSE, email |-> FALSE,
     affiliation |-> FALSE, commas |-> 0, parts |-> 1, and_amp |-> FALSE,
     superscript |-> FALSE, abstract_eol |-> FALSE,
     unlabelled |-> "Alice Smith", meta_marker |-> FALSE,
     journal_marker |-> FALSE, date |-> FALSE]

LnPlain ==
    [text |-> "Carol White", len |-> 11, label |-> FALSE, section_end |-> FALSE,
     noise |-> FALSE, email |-> FALSE, affiliation |-> FALSE, commas |-> 0,
     parts |-> 1, and_amp |-> FALSE, superscript |-> FALSE,
     abstract_eol |-> FALSE, unlabelled |-> "Carol White",
     meta_marker |-> FALSE, journal_marker |-> FALSE, date |-> FALSE]

LnFiveNames ==
    [text |-> "Ann, Bob, Cy, Dee, Eve", len |-> 22, label |-> FALSE,
     section_end |-> FALSE, noise |-> FALSE, email |-> FALSE,
     affiliation |-> FALSE, commas |-> 4, parts |-> 5, and_amp |-> FALSE,
     superscript |-> FALSE, abstract_eol |-> FALSE,
     unlabelled |-> "Ann, Bob, Cy, Dee, Eve", meta_marker |-> FALSE,
     journal_marker |-> FALSE, date |-> FALSE]

LnSixNames ==
    [text |-> "Ann, Bob, Cy, Dee, Eve, Flo", len |-> 27, label |-> FALSE,
     section_end |-> FALSE, noise |-> FALSE, email |-> FALSE,
     affiliation |-> FALSE, commas |-> 5, parts |-> 6, and_amp |-> FALSE,
     superscript |-> FALSE, abstract_eol |-> FALSE,
     unlabelled |-> "Ann, Bob, Cy, Dee, Eve, Flo", meta_marker |-> FALSE,
     journal_marker |-> FALSE, date |-> FALSE]

LnSevenNames ==
    [text |-> "Ann, Bob, Cy, Dee, Eve, Flo, Gus", len |-> 32, label |-> FALSE,
     section_end |-> FALSE, noise |-> FALSE, email |-> FALSE,
     affiliation |-> FALSE, commas |-> 6, parts |-> 7, and_amp |-> FALSE,
     superscript |-> FALSE, abstract_eol |-> FALSE,
     unlabelled |-> "Ann, Bob, Cy, Dee, Eve, Flo, Gus", meta_marker |-> FALSE,
     journal_marker |-> FALSE, date |-> FALSE]

\* a body line of n >= 1 characters: prose without a comma or any of the
\* words the tests look for (text shows how it begins)
LnBody(n) ==
    [text |-> "lorem ipsum dolor sit amet ...", len |-> n, label |-> FALSE,
     section_end |-> FALSE, noise |-> FALSE, email |-> FALSE,
     affiliation |-> FALSE, commas |-> 0, parts |-> 1, and_amp |-> FALSE,
     superscript |-> FALSE, abstract_eol |-> FALSE,
     unlabelled |-> "lorem ipsum dolor sit amet ...", meta_marker |-> FALSE,
     journal_marker |-> FALSE, date |-> FALSE]

\* pdf_processor.py:207
TitleSentinel == "Unable to extract title"

\* pdf_processor.py:175 (a one-line text)
AuthorSentinel == <<"Unable to extract author information">>

\* "if not line"
IsEmpty(line) == line.text = ""

\* x in lst, for a list of lines
IsIn(line, lst) == \E k \in 1..Len(lst) : lst[k] = line

\* lines 189-202: the tests that make extract_title skip a line
TitleSkips(line) ==
    \/ IsEmpty(line) \/ line.len < 10
    \/ line.meta_marker
    \/ line.journal_marker
    \/ line.date

\* lines 185-207: the first line of lines[:10] that is not skipped
extract_title(lines) ==
    LET head == PySlice(lines, 0, 10)
        kept == SelectSeq(head, LAMBDA l : ~TitleSkips(l))
    IN  IF kept = << >> THEN TitleSentinel ELSE kept[1].text

\* lines 58-80: APPROACH 1, the loop over all lines with its two flags
RECURSIVE AuthorSection(_, _, _, _)
AuthorSection(lines, started, ended, acc) ==
    IF lines = << >> THEN acc
    ELSE LET line == Head(lines)
             rest == Tail(lines)
         IN  IF IsEmpty(line) THEN AuthorSection(rest, started, ended, acc)
             ELSE IF ~started /\ line.label
             THEN AuthorSection(rest, TRUE, ended, Append(acc, line))
             ELSE IF started /\ ~ended
             THEN IF line.section_end \/ IsEmpty(line)
                  THEN AuthorSection(rest, started, TRUE, acc)
                  ELSE AuthorSection(rest, started, ended, Append(acc, line))
             ELSE AuthorSection(rest, started, ended, acc)

Approach1(lines) == AuthorSection(lines, FALSE, FALSE, << >>)

\* lines 91, 116: "len(line) < 3 or re.search(noise)"
NotAuthorLine(line) == line.len < 3 \/ line.noise

\* lines 99-101: the non-empty lines of a window not yet collected, appended
\* one after the other
RECURSIVE AppendNew(_, _)
AppendNew(acc, window) ==
    IF window = << >> THEN acc
    ELSE LET l == Head(window)
         IN  AppendNew(IF ~IsEmpty(l) /\ ~IsIn(l, acc) THEN Append(acc, l) ELSE acc,
                       Tail(window))

\* lines 87-108: APPROACH 2 from index i (0-based) of lines[:30] on
RECURSIVE AffiliationLoop(_, _, _)
AffiliationLoop(lines, i, acc) ==
    IF i >= Min(Len(lines), 30) THEN acc
    ELSE LET line == lines[i + 1]
         IN  IF NotAuthorLine(line) THEN AffiliationLoop(lines, i + 1, acc)
             ELSE IF line.email
             THEN AffiliationLoop(lines, i + 1,
                      AppendNew(acc, PySlice(lines, Max(0, i - 1),
                                             Min(Len(lines), i + 2))))
             ELSE IF line.affiliation
             THEN LET above == IF i > 0 /\ ~IsEmpty(lines[i]) /\ ~IsIn(lines[i], acc)
                               THEN Append(acc, lines[i]) ELSE acc
                  IN  AffiliationLoop(lines, i + 1, Append(above, line))
             ELSE AffiliationLoop(lines, i + 1, acc)

Approach2_none(lines, acc) == acc

Approach2(lines, acc) == AffiliationLoop(lines, 0, acc)

\* lines 120-121: the separator test
SeparatorPattern(line) ==
    \/ line.commas >= 1 /\ line.and_amp
    \/ line.commas >= 1 /\ line.parts <= 5

\* lines 112-126: APPROACH 3 over lines[:20]; the two ifs are independent
RECURSIVE FormatLoop(_, _)
FormatLoop(lines, acc) ==
    IF lines = << >> THEN acc
    ELSE LET line == Head(lines)
             a == IF SeparatorPattern(line) THEN Append(acc, line) ELSE acc
             b == IF line.superscript THEN Append(a, line) ELSE a
         IN  FormatLoop(Tail(lines), IF NotAuthorLine(line) THEN acc ELSE b)

Approach3(lines, acc) == FormatLoop(PySlice(lines, 0, 20), acc)

\* the index (0-based) at which a for loop with "if test: index = i; break"
\* stops, given the outcome of the test on each line; -1 when it never does
FirstIndex(tests) ==
    IF \E k \in 1..Len(tests) : tests[k]
    THEN (CHOOSE k \in 1..Len(tests) :
              tests[k] /\ \A m \in 1..(k - 1) : ~tests[m]) - 1
    ELSE -1

\* line 135
LooksLikeTitle(line) == line.len > 20 /\ ~line.noise

\* line 141
IsAbstract(line) == line.abstract_eol

\* lines 130-157: APPROACH 4
Approach4(lines, acc) ==
    LET first10 == PySlice(lines, 0, 10)
        first50 == PySlice(lines, 0, 50)
        title_index ==
            FirstIndex([k \in 1..Len(first10) |-> LooksLikeTitle(first10[k])])
        abstract_index ==
            FirstIndex([k \in 1..Len(first50) |-> IsAbstract(first50[k])])
    IN  IF title_index >= 0 /\ abstract_index > title_index
        THEN LET between == PySlice(lines, title_index + 1, abstract_index)
                 candidate_lines ==
                     SelectSeq(between, LAMBDA l : ~IsEmpty(l) /\ l.len < 100)
             IN  AppendNew(acc, PySlice(candidate_lines, 0, 3))
        ELSE acc

NeedMore_empty(acc) == Len(acc) = 0

\* lines 83, 111, 129: "if len(potential_author_lines) <= 1"
NeedMore(acc) == Len(acc) <= 1

\* potential_author_lines after each approach
Candidates1(lines) == Approach1(lines)
Candidates2(lines) ==
    LET acc == Candidates1(lines) IN IF NeedMore(acc) THEN Approach2(lines, acc) ELSE acc
Candidates3(lines) ==
    LET acc == Candidates2(lines) IN IF NeedMore(acc) THEN Approach3(lines, acc) ELSE acc
Candidates4(lines) ==
    LET acc == Candidates3(lines) IN IF NeedMore(acc) THEN Approach4(lines, acc) ELSE acc

\* lines 162-165: duplicates removed, order kept
RECURSIVE Unique(_, _)
Unique(lst, seen) ==
    IF lst = << >> THEN seen
    ELSE Unique(Tail(lst), IF IsIn(Head(lst), seen) THEN seen ELSE Append(seen, Head(lst)))

\* lines 168-171: the lines of re.sub(r'^authors?:?\s*', '', "\n".join(unique_lines));
\* the pattern matches at the start of the text only, and its \s* also takes
\* the line break after a line that is nothing but the label
AuthorText(unique_lines) ==
    LET rest == [k \in 1..(Len(unique_lines) - 1) |-> unique_lines[k + 1].text]
        first == unique_lines[1].unlabelled
    IN  IF first = "" THEN rest ELSE <<first>> \o rest

HasCandidates_many(acc) == Len(acc) > 1

\* line 160: "if potential_author_lines"
HasCandidates(acc) == acc # << >>

\* the value extract_authors returns, as the lines of that text (the empty
\* text has no line)
extract_authors(lines) ==
    LET potential_author_lines == Candidates4(lines)
    IN  IF HasCandidates(potential_author_lines)
        THEN AuthorText(Unique(potential_author_lines, << >>))
        ELSE AuthorSentinel

----------------------------------------------------------------------------
(* OllamaClient: requests.post either raises or gives a response           *)

HttpRaise == [kind |-> "raise", status_code |-> 0, embedding |-> << >>, text |-> ""]
HttpResponse(status, emb, txt) ==
    [kind |-> "response", status_code |-> status, embedding |-> emb, text |-> txt]

\* Optional[List[float]]: None, or a list
NoneValue == [none |-> TRUE, list |-> << >>]
ListValue(l) == [none |-> FALSE, list |-> l]

Truthy_always(v) == TRUE

\* Python truth value of an Optional[List]: None and [] are false
Truthy(v) == ~v.none /\ v.list # << >>

\* what get_embedding returns for a response
get_embedding(http) ==
    IF http.status_code = StatusOK THEN ListValue(http.embedding) ELSE NoneValue

StatusStr(status) ==
    CASE status = 200 -> "200"
      [] status = 404 -> "404"
      [] status = 500 -> "500"
      [] OTHER -> "?"

GenerateError_body(http) == <<http.text>>

\* f"Error: {response.status_code}\n{response.text}"
GenerateError(http) == <<"Error: ", StatusStr(http.status_code), "\n", http.text>>

\* what generate returns for a response
generate(http) ==
    IF http.status_code = StatusOK THEN <<http.text>> ELSE GenerateError(http)

----------------------------------------------------------------------------
(* DocumentQA.answer_question: ranking and prompt                          *)

\* document_qa.py:43
MsgEmbedFailed == <<"Failed to generate embedding for the question">>

\* document_qa.py:53
MsgNoChunks == <<"No document chunks available for answering">>

RECURSIVE Dot(_, _)
Dot(a, b) == IF a = << >> \/ b = << >> THEN 0
             ELSE Head(a) * Head(b) + Dot(Tail(a), Tail(b))

NormSq(a) == Dot(a, a)

\* cosine_similarity([q], [e])[0][0] as the exact number num / sqrt(den2);
\* sklearn divides by 1 instead of a zero norm, so a zero vector gives 0
cosine_similarity(q, e) ==
    IF NormSq(q) = 0 \/ NormSq(e) = 0 THEN [num |-> 0, den2 |-> 1]
    ELSE [num |-> Dot(q, e), den2 |-> NormSq(q) * NormSq(e)]

\* a < b for similarities a, b
SimLess(a, b) ==
    CASE a.num < 0 /\ b.num >= 0 -> TRUE
      [] a.num >= 0 /\ b.num < 0 -> FALSE
      [] a.num >= 0 /\ b.num >= 0 -> a.num * a.num * b.den2 < b.num * b.num * a.den2
      [] OTHER -> a.num * a.num * b.den2 > b.num * b.num * a.den2

SimEq(a, b) == ~SimLess(a, b) /\ ~SimLess(b, a)

\* the index orders (0-based) np.argsort may return: ascending by value; the
\* default sort kind is not stable, so equal values come in any order
ArgSorts(sims) ==
    LET n == Len(sims)
    IN  {p \in [1..n -> 0..(n - 1)] :
            /\ \A i, j \in 1..n : i # j => p[i] # p[j]
            /\ \A i, j \in 1..n : i < j => ~SimLess(sims[p[j] + 1], sims[p[i] + 1])}

\* np.argsort(similarities)[-n_chunks:][::-1]
TopIndices(order, k) == Reverse(PyTail(order, k))

Newline == <<-1>>
CtxHeading == <<-2>>     \* "Context from research paper:\n"
QuestionHeading == <<-3>> \* "\n\nQuestion: "
AnswerHeading == <<-4>>   \* "\n\nAnswer:"

\* sep.join(parts)
RECURSIVE Join(_, _)
Join(parts, sep) ==
    IF parts = << >> THEN << >>
    ELSE IF Len(parts) = 1 THEN parts[1]
    ELSE parts[1] \o sep \o Join(Tail(parts), sep)

\* "\n\n".join([self.chunks[i] for i in top_indices])
Context(chs, top) == Join([j \in 1..Len(top) |-> chs[top[j] + 1]], Newline \o Newline)

\* the f-string prompt
Prompt(context, q) == CtxHeading \o context \o QuestionHeading \o q \o AnswerHeading

----------------------------------------------------------------------------
(* Inputs                                                                  *)

\* a text of n characters whose character codes repeat with period p
Text(n, p) == [i \in 1..n |-> (i - 1) % p]

\* a text of n pairwise different characters
PlainText(n) == Text(n, n + 1)

SplitTexts == {PlainText(n) : n \in 0..MaxTextLen}
SplitChunkSizes == {-1, 0, 1, 60, MinChunkLen - 1, MinChunkLen, MinChunkLen + 1, 130}
SplitOverlaps == {-20, 0, 1, 30, MinChunkLen - 1, MinChunkLen, 130}

\* the heads of the documents loaded: a paper's first lines, a bare author
\* label before the abstract, and a head without any author line
PaperHead == <<LnTitle, LnNames, LnAffil, LnBlank, LnAbstract>>
LabelHead == <<LnLabel, LnAbstract>>
PlainHead == <<LnPlain>>

\* the characters of the lines of head, each with its line break
RECURSIVE HeadLen(_)
HeadLen(head) ==
    IF head = << >> THEN 0 ELSE Head(head).len + 1 + HeadLen(Tail(head))

\* a text of n characters (codes of period p): the lines of head, then one
\* body line
Document(n, p, head) ==
    [chars |-> Text(n, p), lines |-> Append(head, LnBody(n - HeadLen(head)))]

\* load_document arguments
LoadTexts ==
    {Document(MinChunkLen - 1, MinChunkLen, PlainHead),
     Document(MaxTextLen - 50, MaxTextLen, LabelHead),
     Document(MaxTextLen, MaxTextLen + 1, PaperHead),
     Document(MaxTextLen, 50, PaperHead)}
LoadChunkSizes == {MinChunkLen}
LoadOverlaps == {50, MinChunkLen, 120}

\* the texts given to extract_title / extract_authors directly: every head of
\* up to MaxHeadLines lines of these kinds
MetaKinds == {LnBlank, LnTitle, LnNames, LnAffil, LnAbstract, LnLabel, LnLabelled, LnPlain}
MetaHeads == UNION {[1..n -> MetaKinds] : n \in 1..MaxHeadLines}

\* a title that comes after k blank lines, alone or followed by a name
BlankLines(k) == [j \in 1..k |-> LnBlank]
PaddedHeads ==
    {BlankLines(k) \o <<LnTitle>> : k \in 0..MaxPad}
    \cup {BlankLines(k) \o <<LnTitle, LnPlain>> : k \in 0..MaxPad}

\* the first lines of a paper, alone and followed by its body
PaperHeads == {PaperHead, Append(PaperHead, LnBody(MaxTextLen - HeadLen(PaperHead)))}

\* name lists of two to seven names, alone, under a title, before the abstract
NameLists == {LnNames, LnFiveNames, LnSixNames, LnSevenNames}
NameListHeads ==
    {<<c>> : c \in NameLists}
    \cup {<<LnTitle, c>> : c \in NameLists}
    \cup {<<c, LnBlank, LnAbstract>> : c \in NameLists}

MetaInputs == MetaHeads \cup PaddedHeads \cup PaperHeads \cup NameListHeads

\* what PDFProcessor.extract_text gives the user interface: a paper of two
\* chunks or a short text of one
UiTexts ==
    {Document(UiTextLen, UiTextLen + 1, PaperHead),
     Document(MaxTextLen, MaxTextLen + 1, PlainHead)}

\* backend behaviour towards the user interface's threads
UiEmbedHttp ==
    {HttpRaise, HttpResponse(500, << >>, "internal error"),
     HttpResponse(StatusOK, <<1, 0>>, "")}
UiGenerateHttp == {HttpRaise, HttpResponse(StatusOK, << >>, "an answer")}

\* answer_question arguments
Questions == {<<1, 2>>}
NChunks == 0..DefaultNChunks

\* backend behaviour
Vecs == {<<1, 0>>, <<1, 1>>}
EmbedHttp ==
    {HttpRaise, HttpResponse(500, << >>, "internal error")}
    \cup {HttpResponse(StatusOK, v, "") : v \in Vecs \cup {<< >>}}
GenerateHttp ==
    {HttpRaise, HttpResponse(500, << >>, "internal error"),
     HttpResponse(StatusOK, << >>, "an answer")}

----------------------------------------------------------------------------
(* State after construction: DocumentQA.__init__, no call made             *)

NoResult == [op |-> "none", kind |-> "none", value |-> << >>]

\* the text "": no character, and "".split('\n') is ['']
EmptyText == [chars |-> << >>, lines |-> <<LnBlank>>]

NoPrev == [valid |-> FALSE]

InitSession ==
    /\ document_text = EmptyText
    /\ title = ""
    /\ authors = << >>
    /\ chunks = << >>
    /\ embeddings = << >>
    /\ emb_src = << >>
    /\ pc = "idle"
    /\ load_args = [chunk_size |-> 0, overlap |-> 0]
    /\ load_i = 0
    /\ load_outs = << >>
    /\ load_status = "none"
    /\ prev_load = NoPrev
    /\ question = << >>
    /\ n_chunks = 0
    /\ question_embedding = << >>
    /\ similarities = << >>
    /\ top_indices = << >>
    /\ prompt = << >>
    /\ calls = << >>
    /\ result = NoResult

NoSplit == [kind |-> "none", value |-> << >>]

InitSplit ==
    /\ split_in = [text |-> << >>, chunk_size |-> 0, overlap |-> 0]
    /\ split_out = NoSplit

NoMeta ==
    [kind |-> "none", title |-> "", authors |-> << >>, unique_lines |-> << >>,
     collected |-> << >>]

InitMeta ==
    /\ meta_in = <<LnBlank>>
    /\ meta_out = NoMeta

\* None
NoObject == 0

\* main_tab.py:27-37 (MainTab.__init__), the widgets as create_ui leaves them,
\* resource_monitor.py:33, logger.py:16
InitUI ==
    /\ document_qa = NoObject
    /\ heap = << >>
    /\ threads = << >>
    /\ after_queue = << >>
    /\ status_bar = "Ready"
    /\ answer_text = << >>
    /\ doc_info = [shown |-> FALSE, title |-> "", authors |-> << >>, chunks |-> 0]
    /\ monitoring = FALSE
    /\ log_entries = << >>
    /\ overlapped = FALSE

\* split_text is not running
InitLoop ==
    /\ split_pc = "idle"
    /\ split_i = 0
    /\ split_chunks = << >>

\* resource_monitor.py:34-38 (ResourceMonitor.__init__); no loop thread yet
InitMonitor ==
    /\ timestamps = << >>
    /\ cpu_history = << >>
    /\ ram_history = << >>
    /\ gpu_history = << >>
    /\ start_time = 0
    /\ loops = << >>

Init == InitSession /\ InitSplit /\ InitMeta /\ InitUI /\ InitLoop /\ InitMonitor

----------------------------------------------------------------------------
(* split_text called on its own: the arguments are drawn, the call applied *)

InitSplitArgs ==
    /\ InitSession
    /\ InitMeta
    /\ InitUI
    /\ InitLoop
    /\ InitMonitor
    /\ split_in \in [text : SplitTexts, chunk_size : SplitChunkSizes,
                     overlap : SplitOverlaps]
    /\ split_out = NoSplit

SplitCall ==
    /\ split_out = NoSplit
    /\ split_out' = SplitOutcome(split_in.text, split_in.chunk_size, split_in.overlap)
    /\ UNCHANGED <<split_in, session, pc, loadLocals, prev_load, askLocals, calls,
                   result, metaVars,
                   loopVars, monitorVars, uiVars>>

NextSplit == SplitCall

SpecSplit == InitSplitArgs /\ [][NextSplit]_vars

----------------------------------------------------------------------------
(* extract_title and extract_authors called on their own                   *)

InitMetaArgs ==
    /\ InitSession
    /\ InitSplit
    /\ InitUI
    /\ InitLoop
    /\ InitMonitor
    /\ meta_in \in MetaInputs
    /\ meta_out = NoMeta

MetaCall ==
    /\ meta_out = NoMeta
    /\ meta_out' = [kind |-> "return", title |-> extract_title(meta_in),
                    authors |-> extract_authors(meta_in),
                    unique_lines |-> Unique(Candidates4(meta_in), << >>),
                    collected |-> <<Candidates1(meta_in), Candidates2(meta_in),
                                    Candidates3(meta_in), Candidates4(meta_in)>>]
    /\ UNCHANGED <<meta_in, session, pc, loadLocals, prev_load, askLocals, calls,
                   result, splitVars,
                   loopVars, monitorVars, uiVars>>

NextMeta == MetaCall

SpecMeta == InitMetaArgs /\ [][NextMeta]_vars

----------------------------------------------------------------------------
(* DocumentQA.load_document                                                *)

Running(op) == [op |-> op, kind |-> "running", value |-> << >>]
Returned(op, v) == [op |-> op, kind |-> "return", value |-> v]
Raised(op, exc) == [op |-> op, kind |-> "raise", value |-> <<exc>>]

\* a backend call with its outcome: raised, returned an Optional[List]
\* (get_embedding), or returned a string (generate)
OutRaise == [kind |-> "raise", opt |-> NoneValue, text |-> << >>]
OutOpt(v) == [kind |-> "return", opt |-> v, text |-> << >>]
OutText(t) == [kind |-> "return", opt |-> NoneValue, text |-> t]
Call(fn, arg, out, http) == [fn |-> fn, arg |-> arg, out |-> out, http |-> http]

\* the locals of an earlier answer_question call are gone
ClearAskLocals ==
    /\ question' = << >>
    /\ n_chunks' = 0
    /\ question_embedding' = << >>
    /\ similarities' = << >>
    /\ top_indices' = << >>
    /\ prompt' = << >>

ResetEmbeddings_keep(embs) == embs

\* line 32: "self.embeddings = []"
ResetEmbeddings(embs) == << >>

\* what a returned load_document of the same arguments left, if that is the
\* call just before this one
PrevLoad(text, chunk_size, overlap) ==
    IF /\ result.op = "load" /\ result.kind = "return"
       /\ document_text = text
       /\ load_args = [chunk_size |-> chunk_size, overlap |-> overlap]
    THEN [valid |-> TRUE, calls |-> calls, title |-> title, authors |-> authors,
          chunks |-> chunks, embeddings |-> embeddings]
    ELSE NoPrev

\* lines 25-32: the text is stored, title and authors are extracted from it,
\* split_text runs (and may raise), the embeddings are reset
LoadStart(text, chunk_size, overlap) ==
    /\ pc = "idle"
    /\ prev_load' = PrevLoad(text, chunk_size, overlap)
    /\ document_text' = text
    /\ title' = extract_title(text.lines)
    /\ authors' = extract_authors(text.lines)
    /\ load_args' = [chunk_size |-> chunk_size, overlap |-> overlap]
    /\ calls' = << >>
    /\ load_outs' = << >>
    /\ LET out == SplitOutcome(text.chars, chunk_size, overlap)
       IN  IF out.kind = "raise"
           THEN /\ result' = Raised("load", out.value[1])
                /\ load_status' = "raised"
                /\ pc' = "idle"
                /\ UNCHANGED <<chunks, embeddings, emb_src, load_i>>
           ELSE /\ chunks' = out.value
                /\ embeddings' = ResetEmbeddings(embeddings)
                /\ emb_src' = << >>
                /\ load_i' = 1
                /\ result' = Running("load")
                /\ load_status' = "running"
                /\ pc' = "load_loop"
    /\ ClearAskLocals
    /\ UNCHANGED <<splitVars, metaVars,
                   loopVars, monitorVars, uiVars>>

StoreEmbedding_always(embs, v) == Append(embs, v.list)

\* lines 35-36: "if embedding: self.embeddings.append(embedding)"
StoreEmbedding(embs, v) == IF Truthy(v) THEN Append(embs, v.list) ELSE embs

\* lines 33-36: one iteration of the for loop
LoadEmbed(http) ==
    /\ pc = "load_loop"
    /\ load_i <= Len(chunks)
    /\ IF http.kind = "raise"
       THEN /\ calls' = Append(calls, Call("get_embedding", chunks[load_i], OutRaise, http))
            /\ result' = Raised("load", "RequestException")
            /\ load_status' = "raised"
            /\ pc' = "idle"
            /\ UNCHANGED <<embeddings, emb_src, load_i, load_outs>>
       ELSE LET v == get_embedding(http)
            IN  /\ calls' = Append(calls, Call("get_embedding", chunks[load_i], OutOpt(v), http))
                /\ embeddings' = StoreEmbedding(embeddings, v)
                /\ emb_src' = IF Len(embeddings') > Len(embeddings)
                              THEN Append(emb_src, chunks[load_i]) ELSE emb_src
                /\ load_outs' = Append(load_outs, v)
                /\ load_i' = load_i + 1
                /\ UNCHANGED <<result, pc, load_status>>
    /\ UNCHANGED <<document_text, title, authors, chunks, load_args, prev_load,
                   askLocals, splitVars, metaVars,
                   loopVars, monitorVars, uiVars>>

\* the loop is exhausted: load_document returns None
LoadReturn ==
    /\ pc = "load_loop"
    /\ load_i > Len(chunks)
    /\ result' = Returned("load", << >>)
    /\ load_status' = "returned"
    /\ pc' = "idle"
    /\ UNCHANGED <<session, load_args, load_i, load_outs, prev_load, askLocals, calls,
                   splitVars, metaVars,
                   loopVars, monitorVars, uiVars>>

----------------------------------------------------------------------------
(* DocumentQA.answer_question                                              *)

AskKeepsSession_clear ==
    /\ embeddings' = << >>
    /\ UNCHANGED <<document_text, title, authors, chunks>>

\* lines 38-75: answer_question assigns no attribute of self
AskKeepsSession == UNCHANGED <<document_text, title, authors, chunks, embeddings>>

AskStart(q, k) ==
    /\ pc = "idle"
    /\ prev_load' = NoPrev
    /\ question' = q
    /\ n_chunks' = k
    /\ question_embedding' = << >>
    /\ similarities' = << >>
    /\ top_indices' = << >>
    /\ prompt' = << >>
    /\ calls' = << >>
    /\ result' = Running("ask")
    /\ pc' = "ask_embed"
    /\ AskKeepsSession
    /\ UNCHANGED <<emb_src, loadLocals, splitVars, metaVars,
                   loopVars, monitorVars, uiVars>>

QuestionEmbeddingMissing_never(v) == FALSE

\* line 42: "if not question_embedding"
QuestionEmbeddingMissing(v) == ~Truthy(v)

\* lines 41-43
AskEmbed(http) ==
    /\ pc = "ask_embed"
    /\ calls' = Append(calls, Call("get_embedding", question,
                                   IF http.kind = "raise" THEN OutRaise
                                   ELSE OutOpt(get_embedding(http)), http))
    /\ IF http.kind = "raise"
       THEN /\ result' = Raised("ask", "RequestException")
            /\ pc' = "idle"
            /\ UNCHANGED question_embedding
       ELSE LET v == get_embedding(http)
            IN  IF QuestionEmbeddingMissing(v)
                THEN /\ result' = Returned("ask", MsgEmbedFailed)
                     /\ pc' = "idle"
                     /\ UNCHANGED question_embedding
                ELSE /\ question_embedding' = v.list
                     /\ pc' = "ask_rank"
                     /\ UNCHANGED result
    /\ AskKeepsSession
    /\ UNCHANGED <<emb_src, loadLocals, prev_load, question, n_chunks, similarities,
                   top_indices, prompt, splitVars, metaVars,
                   loopVars, monitorVars, uiVars>>

\* lines 46-72
AskRank ==
    /\ pc = "ask_rank"
    /\ similarities' = [i \in 1..Len(embeddings) |->
                            cosine_similarity(question_embedding, embeddings[i])]
    /\ IF similarities' = << >>
       THEN /\ result' = Returned("ask", MsgNoChunks)
            /\ pc' = "idle"
            /\ UNCHANGED <<top_indices, prompt>>
       ELSE /\ \E order \in ArgSorts(similarities') :
                 top_indices' = TopIndices(order, n_chunks)
            /\ prompt' = Prompt(Context(chunks, top_indices'), question)
            /\ pc' = "ask_generate"
            /\ UNCHANGED result
    /\ AskKeepsSession
    /\ UNCHANGED <<emb_src, loadLocals, prev_load, question, n_chunks,
                   question_embedding, calls, splitVars, metaVars,
                   loopVars, monitorVars, uiVars>>

\* line 75
AskGenerate(http) ==
    /\ pc = "ask_generate"
    /\ calls' = Append(calls, Call("generate", prompt,
                                   IF http.kind = "raise" THEN OutRaise
                                   ELSE OutText(generate(http)), http))
    /\ result' = IF http.kind = "raise" THEN Raised("ask", "RequestException")
                 ELSE Returned("ask", generate(http))
    /\ pc' = "idle"
    /\ AskKeepsSession
    /\ UNCHANGED <<emb_src, loadLocals, prev_load, askLocals, splitVars, metaVars,
                   loopVars, monitorVars, uiVars>>

Next ==
    \/ \E text \in LoadTexts, chunk_size \in LoadChunkSizes, overlap \in LoadOverlaps :
            LoadStart(text, chunk_size, overlap)
    \/ \E http \in EmbedHttp : LoadEmbed(http)
    \/ LoadReturn
    \/ \E q \in Questions, k \in NChunks : AskStart(q, k)
    \/ \E http \in EmbedHttp : AskEmbed(http)
    \/ AskRank
    \/ \E http \in GenerateHttp : AskGenerate(http)

Spec == Init /\ [][Next]_vars

----------------------------------------------------------------------------
(* Properties of split_text (under SpecSplit)                              *)

SplitReturned == split_out.kind = "return"
SplitLen == Len(split_in.text)
SplitStep == split_in.chunk_size - split_in.overlap

\* the character positions (0-based) found in the returned chunks; the texts
\* drawn have pairwise different characters, the code of a character being
\* its position
CoveredPositions ==
    UNION {{split_out.value[j][k] : k \in 1..Len(split_out.value[j])} :
              j \in 1..Len(split_out.value)}

AllChunksLongEnough ==
    \A j \in 1..Len(split_out.value) : Len(split_out.value[j]) >= MinChunkLen

\* C4 as stated: for 0 <= overlap < chunk_size, a text of at least 100
\* characters has every position inside a returned chunk of length >= 100,
\* and a shorter text gives no chunks
C4_FullCoverage ==
    (SplitReturned /\ 0 <= split_in.overlap /\ split_in.overlap < split_in.chunk_size)
    => /\ SplitLen >= MinChunkLen =>
            /\ AllChunksLongEnough
            /\ LET covered == CoveredPositions
               IN  \A p \in 0..(SplitLen - 1) : p \in covered
       /\ SplitLen < MinChunkLen => split_out.value = << >>

\* C4 amended: for 0 <= overlap < chunk_size every returned chunk has at least
\* 100 characters; for a text of at least 100 characters and chunk_size >= 100
\* every position is inside a returned chunk except at most the last
\* max(0, 99 - overlap) positions of the text (the short trailing window that
\* is dropped); a text shorter than 100 characters, or chunk_size < 100, gives
\* no chunks
C4_CoverageButShortTail ==
    (SplitReturned /\ 0 <= split_in.overlap /\ split_in.overlap < split_in.chunk_size)
    => /\ AllChunksLongEnough
       /\ (SplitLen >= MinChunkLen /\ split_in.chunk_size >= MinChunkLen) =>
            LET covered == CoveredPositions
                tail == Max(0, MinChunkLen - 1 - split_in.overlap)
            IN  \A p \in 0..(SplitLen - 1 - tail) : p \in covered
       /\ (SplitLen < MinChunkLen \/ split_in.chunk_size < MinChunkLen)
            => split_out.value = << >>

\* a call with valid parameters that returned chunks and left the tail of the
\* text outside every chunk
C4_Witness ==
    /\ SplitReturned
    /\ 0 <= split_in.overlap /\ split_in.overlap < split_in.chunk_size
    /\ Len(split_out.value) >= 2
    /\ (SplitLen - 1) \notin CoveredPositions

\* the window starts of the loop and the windows at them
WindowStarts == {s \in 0..(SplitLen - 1) : s % SplitStep = 0}
WindowAt(s) == PySlice(split_in.text, s, s + split_in.chunk_size)
KeptStarts == {s \in WindowStarts : Len(WindowAt(s)) >= MinChunkLen}

\* C5: for overlap < chunk_size split_text returns exactly the windows
\* text[s : s+chunk_size], s = 0, step, 2*step, ... < len(text), that have at
\* least 100 characters, in increasing order of s
C5_ExactWindows ==
    (SplitReturned /\ split_in.overlap < split_in.chunk_size)
    => /\ Len(split_out.value) = Cardinality(KeptStarts)
       /\ \A s \in KeptStarts :
            split_out.value[Cardinality({t \in KeptStarts : t <= s})] = WindowAt(s)

\* a call with overlap < chunk_size that kept several windows and dropped one
C5_Witness ==
    /\ SplitReturned
    /\ split_in.overlap < split_in.chunk_size
    /\ Len(split_out.value) >= 2
    /\ Cardinality(WindowStarts) > Len(split_out.value)

----------------------------------------------------------------------------
(* Properties of load_document and answer_question (under Spec)            *)

LoadReturned == result.op = "load" /\ result.kind = "return"
AskFinished == result.op = "ask" /\ result.kind # "running"
AtGeneration == pc = "ask_generate"

\* the outcome of the get_embedding call answer_question made for the question
QuestionCallMade == result.op = "ask" /\ Len(calls) >= 1
QuestionGotNone ==
    QuestionCallMade /\ calls[1].out.kind = "return" /\ calls[1].out.opt = NoneValue
GenerateCalled == \E c \in 1..Len(calls) : calls[c].fn = "generate"

\* C1: after every load_document that returns, chunks and embeddings have
\* the same length
C1_SameLength == LoadReturned => Len(chunks) = Len(embeddings)

\* C2: at generation, every selected index i has chunks[i] equal to the text
\* embeddings[i] was computed from
C2_ContextIsRankedText ==
    AtGeneration =>
        \A j \in 1..Len(top_indices) :
            chunks[top_indices[j] + 1] = emb_src[top_indices[j] + 1]

\* C3: a load_document with overlap >= chunk_size ends by raising, before any
\* get_embedding call; it never returns normally
C3_ConfigGuard ==
    (result.op = "load" /\ result.kind # "running"
        /\ load_args.overlap >= load_args.chunk_size)
    => (result.kind = "raise" /\ calls = << >>)

\* C6: the number of chunks selected for the context is min(n_chunks,
\* len(embeddings)), for every n_chunks >= 0
C6_TopKBound ==
    AtGeneration => Len(top_indices) = Min(n_chunks, Len(embeddings))

Selected == {top_indices[j] : j \in 1..Len(top_indices)}

\* C7: the selection is in descending similarity order, with equal
\* similarities in ascending index order, and an index left out is neither
\* more similar than a selected one nor equally similar with a smaller index
\* (stated for n_chunks >= 1, where the cut-off is the one C6 describes)
C7_DescendingTiesByIndex ==
    (AtGeneration /\ n_chunks >= 1) =>
        /\ \A j \in 1..(Len(top_indices) - 1) :
            LET a == top_indices[j]
                b == top_indices[j + 1]
            IN  \/ SimLess(similarities[b + 1], similarities[a + 1])
                \/ SimEq(similarities[a + 1], similarities[b + 1]) /\ a < b
        /\ \A a \in Selected, b \in (0..(Len(similarities) - 1)) \ Selected :
                \/ SimLess(similarities[b + 1], similarities[a + 1])
                \/ SimEq(similarities[a + 1], similarities[b + 1]) /\ a < b

\* C8: every answer_question call ends by returning (a string), never by
\* raising
C8_AskTotal == AskFinished => result.kind = "return"

\* the last load_document returned and every get_embedding call in it
\* returned None
LoadedAllNone ==
    /\ load_status = "returned"
    /\ Len(load_outs) >= 1
    /\ \A i \in 1..Len(load_outs) : load_outs[i] = NoneValue

\* C9 as stated: after a load whose embeddings all came back None, an
\* answer_question whose question embedding is None as well returns the "no
\* document chunks" message
C9_NoChunksMessage ==
    (LoadedAllNone /\ AskFinished /\ QuestionGotNone)
    => result = Returned("ask", MsgNoChunks)

\* C9 amended: after a load whose embeddings all came back None the store has
\* no embeddings, and an answer_question whose get_embedding call responds
\* returns without calling generate: the "failed to generate embedding"
\* message while get_embedding returns None (or an empty list), the "no
\* document chunks" message once the question is embedded
C9_EmptyStoreMessages ==
    (LoadedAllNone /\ result.op = "ask")
    => /\ embeddings = << >>
       /\ ~GenerateCalled
       /\ (AskFinished /\ calls[1].out.kind = "return")
            => IF Truthy(calls[1].out.opt)
               THEN result = Returned("ask", MsgNoChunks)
               ELSE result = Returned("ask", MsgEmbedFailed)

\* a load of several chunks that all got None, then a question that got None
C9_Witness ==
    /\ LoadedAllNone
    /\ Len(load_outs) >= 2
    /\ AskFinished
    /\ QuestionGotNone
    /\ result = Returned("ask", MsgEmbedFailed)

\* C10: when get_embedding returns None for the question, answer_question
\* returns the "failed to generate embedding" message at once: no similarity
\* is computed and generate is not called
C10_QuestionEmbeddingNone ==
    QuestionGotNone
    => /\ pc = "idle"
       /\ result = Returned("ask", MsgEmbedFailed)
       /\ similarities = << >>
       /\ ~GenerateCalled

\* a question that got None against a store that holds embeddings
C10_Witness ==
    /\ QuestionGotNone
    /\ AskFinished
    /\ Len(embeddings) >= 2

\* the response to the generate request of the answer_question call
LastCall == calls[Len(calls)]
GenerateResponded ==
    AskFinished /\ GenerateCalled /\ LastCall.http.kind = "response"

\* C11: when answer_question reaches the generate call, it returns exactly
\* what generate returned: the response text for status 200, and
\* "Error: <status>\n<body>" for any other status
C11_AnswerIsGenerateOutput ==
    GenerateResponded
    => /\ result.kind = "return"
       /\ result.value = LastCall.out.text
       /\ result.value =
            IF LastCall.http.status_code = 200
            THEN <<LastCall.http.text>>
            ELSE <<"Error: ", StatusStr(LastCall.http.status_code), "\n",
                   LastCall.http.text>>

\* an answer_question call whose generate request got a non-success status
C11_Witness ==
    /\ GenerateResponded
    /\ LastCall.http.status_code = 500
    /\ result.kind = "return"

----------------------------------------------------------------------------
(* The session across calls                                                *)

AskPcs == {"ask_embed", "ask_rank", "ask_generate"}

\* a step of answer_question: it starts, continues or ends the call
AskStep == pc \in AskPcs \/ pc' \in AskPcs

\* C12: answering a question changes none of the session's document_text,
\* title, authors, chunks and embeddings -- every step of answer_question,
\* from its first to its last, leaves all five as they were.
C12_AskKeepsSession ==
    [][AskStep => UNCHANGED <<document_text, title, authors, chunks, embeddings>>]_vars

\* an answer was returned over a loaded document with stored embeddings
C12_Witness ==
    /\ AskFinished
    /\ GenerateCalled
    /\ result.kind = "return"
    /\ embeddings # << >>
    /\ title = LnTitle.text

\* the backend answered like a function of its input: equal inputs got equal
\* outcomes, over the calls of this load and of the one before it
DeterministicBackend ==
    LET all == calls \o prev_load.calls
    IN  \A a, b \in 1..Len(all) : all[a].arg = all[b].arg => all[a].out = all[b].out

Reloaded == LoadReturned /\ prev_load.valid

\* C16: when load_document has returned for the second time in a row with the
\* same text and arguments, and the embedding backend answered as a function
\* of its input, chunks, embeddings, title and authors are what the first of
\* the two calls left.
C16_ReloadIdempotent ==
    (Reloaded /\ DeterministicBackend)
    => /\ chunks = prev_load.chunks
       /\ embeddings = prev_load.embeddings
       /\ title = prev_load.title
       /\ authors = prev_load.authors

\* a reload of a document of three chunks, one of which got no embedding
C16_Witness ==
    /\ Reloaded
    /\ DeterministicBackend
    /\ Len(chunks) = 3
    /\ Len(embeddings) = 2
    /\ authors = <<LnNames.text, LnAffil.text>>

----------------------------------------------------------------------------
(* Title and authors                                                       *)

\* C18: after every load_document that returns, title and authors are both
\* non-empty texts.
C18_MetadataNonEmpty == LoadReturned => (title # "" /\ authors # << >>)

MetaReturned == meta_out.kind = "return"

\* what each heuristic collects when it runs alone, on an empty list
Own1 == Approach1(meta_in)
Own2 == Approach2(meta_in, << >>)
Own3 == Approach3(meta_in, << >>)
Own4 == Approach4(meta_in, << >>)

Lines(lst) == {lst[k] : k \in 1..Len(lst)}

\* all lines any of the four heuristics finds
OwnUnion == Lines(Own1) \cup Lines(Own2) \cup Lines(Own3) \cup Lines(Own4)

\* C19: whenever none of the four heuristics yields more than one candidate
\* line, extract_authors returns the sentinel -- also when exactly one
\* candidate line was found in total.
C19_SentinelUnlessTwo ==
    (/\ MetaReturned
     /\ Len(Own1) <= 1 /\ Len(Own2) <= 1 /\ Len(Own3) <= 1 /\ Len(Own4) <= 1)
    => meta_out.authors = AuthorSentinel

\* C19 as the code has it: extract_authors returns the sentinel exactly when
\* no heuristic finds any candidate line; when exactly one candidate line was
\* found in total it returns that line without a leading author label (the
\* empty text for a line that is only the label).
C19_SentinelIffNoCandidate ==
    MetaReturned
    => /\ (meta_out.authors = AuthorSentinel) <=> (OwnUnion = {})
       /\ \A line \in OwnUnion :
             OwnUnion = {line}
             => meta_out.authors =
                    IF line.unlabelled = "" THEN << >> ELSE <<line.unlabelled>>

\* one author line and nothing else any heuristic finds: it is returned
C19_Witness ==
    /\ MetaReturned
    /\ OwnUnion = {LnNames}
    /\ Len(Own3) = 1
    /\ meta_out.authors = <<LnNames.text>>

\* the lines extract_authors had collected when it returned
ResultLines == Lines(meta_out.unique_lines)

\* the first heuristic that on its own yields more than one candidate line
\* (0 when there is none)
FirstBig ==
    CASE Len(Own1) > 1 -> 1
      [] Len(Own1) <= 1 /\ Len(Own2) > 1 -> 2
      [] Len(Own1) <= 1 /\ Len(Own2) <= 1 /\ Len(Own3) > 1 -> 3
      [] Len(Own1) <= 1 /\ Len(Own2) <= 1 /\ Len(Own3) <= 1 /\ Len(Own4) > 1 -> 4
      [] OTHER -> 0

OwnOf(k) ==
    CASE k = 1 -> Own1 [] k = 2 -> Own2 [] k = 3 -> Own3 [] OTHER -> Own4

\* C20: the result is made of the candidates of exactly one heuristic, the
\* first that on its own yields more than one candidate line; lines of an
\* earlier heuristic that yielded at most one line are not in it.
C20_OneHeuristic ==
    (MetaReturned /\ FirstBig > 0)
    => /\ ResultLines = Lines(OwnOf(FirstBig))
       /\ meta_out.authors = AuthorText(Unique(OwnOf(FirstBig), << >>))

\* C20 as the code has it: the heuristics add to one list.  The lines of the
\* explicit author section are always in the result, and are all of it when
\* there is more than one; otherwise the affiliation/e-mail candidates are
\* added to them; when these two found nothing or one section line only, the
\* separator candidates are added, and the positional ones when the separator
\* heuristic found nothing either.  Nothing else is in the result, which is
\* the collected lines joined, without a leading author label.
C20_Accumulates ==
    MetaReturned
    => /\ Lines(Own1) \subseteq ResultLines
       /\ Len(Own1) > 1 => meta_out.unique_lines = Unique(Own1, << >>)
       /\ Len(Own1) <= 1 => Lines(Own2) \subseteq ResultLines
       /\ (Len(Own1) <= 1 /\ Own2 = << >>) => Lines(Own3) \subseteq ResultLines
       /\ (Len(Own1) <= 1 /\ Own2 = << >> /\ Own3 = << >>)
              => Lines(Own4) \subseteq ResultLines
       /\ ResultLines \subseteq OwnUnion
       /\ meta_out.unique_lines # << >>
              => meta_out.authors = AuthorText(meta_out.unique_lines)

\* one labelled author line ended by the abstract, then an affiliation under
\* a name: the result holds the section line and both affiliation candidates
C20_Witness ==
    /\ MetaReturned
    /\ meta_in = <<LnLabelled, LnAbstract, LnPlain, LnAffil>>
    /\ Own1 = <<LnLabelled>>
    /\ Own2 = <<LnPlain, LnAffil>>
    /\ meta_out.authors = <<LnLabelled.unlabelled, LnPlain.text, LnAffil.text>>

----------------------------------------------------------------------------
(* The user interface: MainTab (src/ui/main_tab.py)                        *)
(*                                                                         *)
(* load_pdf and ask_question run on the Tk thread and each start a daemon  *)
(* thread; the threads take turns at the points where they call the        *)
(* backend, the logger or Tk.  A Logger call either returns or raises.     *)

\* DocumentQA.__init__ (document_qa.py:14-21); phase is history: how far
\* load_document has come on this object
NewDocumentQA ==
    [document_text |-> EmptyText, title |-> "", authors |-> << >>,
     chunks |-> << >>, embeddings |-> << >>, phase |-> "constructed"]

\* a thread as threading.Thread(...).start() leaves it (main_tab.py:201, 287)
NewThread(kind) ==
    [kind |-> kind,
     pc |-> IF kind = "load" THEN "extract" ELSE "answer_embed",
     text |-> EmptyText,          \* _process_pdf: local text
     obj |-> NoObject,            \* the object self.document_qa gave at line 219 / 298
     loop_chunks |-> << >>,       \* load_document: the list its for loop iterates
     i |-> 0,                     \* load_document: index of the next chunk
     read_phase |-> "none",       \* history: phase of obj when answer_question ranked
     answer |-> << >>,            \* _process_question: local answer
     core |-> "running",          \* history: load_document / answer_question outcome
     log_raised |-> FALSE,        \* history: a Logger call of this thread raised
     reported |-> "none",         \* history: the status message handed to Tk
     answer_shown |-> FALSE,      \* history: _update_answer handed to Tk
     stopped |-> FALSE]           \* history: resource_monitor.stop() called

\* resource_monitor.py:41-49 (ResourceMonitor.start): the flag is set, the four
\* lists are replaced by new empty lists, the start time is taken and one more
\* _monitor_loop thread is started, whatever the threads started before do
start ==
    /\ monitoring' = TRUE
    /\ cpu_history' = << >>
    /\ ram_history' = << >>
    /\ gpu_history' = << >>
    /\ timestamps' = << >>
    /\ start_time' = Len(loops) + 1
    /\ loops' = Append(loops, "while")

\* resource_monitor.py:51-53 (ResourceMonitor.stop)
stop ==
    /\ monitoring' = FALSE
    /\ UNCHANGED monitorVars

InFlight == {t \in 1..Len(threads) : threads[t].pc \notin {"done", "crashed"}}

Callback(fn, arg) == [fn |-> fn, arg |-> arg]

\* main_tab.py:171-206; a file and both models are selected
load_pdf ==
    /\ Len(threads) < MaxThreads
    /\ start
    /\ status_bar' = "Loading PDF"
    /\ threads' = Append(threads, NewThread("load"))
    /\ overlapped' = (overlapped \/ InFlight # {})
    /\ UNCHANGED <<document_qa, heap, after_queue, answer_text, doc_info, log_entries,
                   coreVars>>

\* main_tab.py:262-292; a question is typed in
ask_question ==
    /\ Len(threads) < MaxThreads
    /\ document_qa # NoObject
    /\ answer_text' = <<"Thinking...">>
    /\ start
    /\ status_bar' = "Processing question..."
    /\ threads' = Append(threads, NewThread("ask"))
    /\ overlapped' = (overlapped \/ InFlight # {})
    /\ UNCHANGED <<document_qa, heap, after_queue, doc_info, log_entries, coreVars>>

\* what PDFProcessor.extract_text does: it returns the text or raises
ExtractOutcomes ==
    {[kind |-> "raise", text |-> EmptyText]}
    \cup {[kind |-> "return", text |-> x] : x \in UiTexts}

At(t, kind, where) ==
    /\ t \in 1..Len(threads)
    /\ threads[t].kind = kind
    /\ threads[t].pc = where

\* main_tab.py:214-215
ProcessPdfExtract(t, out) ==
    /\ At(t, "load", "extract")
    /\ threads' = [threads EXCEPT ![t] =
                      IF out.kind = "raise" THEN [@ EXCEPT !.pc = "except"]
                      ELSE [@ EXCEPT !.text = out.text, !.pc = "create"]]
    /\ UNCHANGED <<document_qa, heap, after_queue, status_bar, answer_text, doc_info,
                   monitoring, log_entries, overlapped, monitorVars, coreVars>>

\* main_tab.py:218: the new, empty object becomes self.document_qa
ProcessPdfCreate(t) ==
    /\ At(t, "load", "create")
    /\ heap' = Append(heap, NewDocumentQA)
    /\ document_qa' = Len(heap) + 1
    /\ threads' = [threads EXCEPT ![t].pc = "load_start"]
    /\ UNCHANGED <<after_queue, status_bar, answer_text, doc_info, monitoring,
                   log_entries, overlapped, monitorVars, coreVars>>

\* main_tab.py:219 reads self.document_qa and calls load_document(text) on
\* it; document_qa.py:25-32 (the default step is positive, range() does not
\* raise)
ProcessPdfLoadStart(t) ==
    /\ At(t, "load", "load_start")
    /\ LET text == threads[t].text
           cs == split_text(text.chars, DefaultChunkSize, DefaultOverlap)
       IN  /\ heap' = [heap EXCEPT ![document_qa] =
                          [document_text |-> text,
                           title |-> extract_title(text.lines),
                           authors |-> extract_authors(text.lines),
                           chunks |-> cs,
                           embeddings |-> ResetEmbeddings(@.embeddings),
                           phase |-> "loading"]]
           /\ threads' = [threads EXCEPT ![t] =
                             [@ EXCEPT !.obj = document_qa, !.loop_chunks = cs,
                                       !.i = 1, !.pc = "load_loop"]]
    /\ UNCHANGED <<document_qa, after_queue, status_bar, answer_text, doc_info,
                   monitoring, log_entries, overlapped, monitorVars, coreVars>>

\* document_qa.py:33-36: one iteration; an exception of get_embedding leaves
\* load_document and reaches the except of _process_pdf
ProcessPdfLoadEmbed(t, http) ==
    /\ At(t, "load", "load_loop")
    /\ threads[t].i <= Len(threads[t].loop_chunks)
    /\ LET obj == threads[t].obj
       IN  IF http.kind = "raise"
           THEN /\ heap' = [heap EXCEPT ![obj].phase = "aborted"]
                /\ threads' = [threads EXCEPT ![t] =
                                  [@ EXCEPT !.core = "raised", !.pc = "except"]]
           ELSE /\ heap' = [heap EXCEPT ![obj].embeddings =
                               StoreEmbedding(@, get_embedding(http))]
                /\ threads' = [threads EXCEPT ![t].i = @ + 1]
    /\ UNCHANGED <<document_qa, after_queue, status_bar, answer_text, doc_info,
                   monitoring, log_entries, overlapped, monitorVars, coreVars>>

\* load_document returns; main_tab.py:222-226
ProcessPdfLoaded(t) ==
    /\ At(t, "load", "load_loop")
    /\ threads[t].i > Len(threads[t].loop_chunks)
    /\ heap' = [heap EXCEPT ![threads[t].obj].phase = "loaded"]
    /\ after_queue' = Append(after_queue, Callback("_update_document_info", << >>))
    /\ threads' = [threads EXCEPT ![t] = [@ EXCEPT !.core = "returned", !.pc = "log"]]
    /\ UNCHANGED <<document_qa, status_bar, answer_text, doc_info, monitoring,
                   log_entries, overlapped, monitorVars, coreVars>>

\* main_tab.py:229-237: log_pdf_load with the thread's own pdf_path (the file
\* is named here by the text extract_text gave for it) and with the title and
\* authors of what self.document_qa is now; when it raises the except clause
\* is next
ProcessPdfLog(t, ok) ==
    /\ At(t, "load", "log")
    /\ IF ok
       THEN /\ log_entries' = Append(log_entries,
                                     [type |-> "PDF_LOAD",
                                      pdf_path |-> threads[t].text,
                                      title |-> heap[document_qa].title,
                                      authors |-> heap[document_qa].authors])
            /\ threads' = [threads EXCEPT ![t].pc = "finish"]
       ELSE /\ threads' = [threads EXCEPT ![t] =
                              [@ EXCEPT !.log_raised = TRUE, !.pc = "except"]]
            /\ UNCHANGED log_entries
    /\ UNCHANGED <<document_qa, heap, after_queue, status_bar, answer_text, doc_info,
                   monitoring, overlapped, monitorVars, coreVars>>

\* main_tab.py:240-245
ProcessPdfFinish(t) ==
    /\ At(t, "load", "finish")
    /\ after_queue' = Append(after_queue, Callback("set_status", "PDF loaded"))
    /\ monitoring' = FALSE
    /\ threads' = [threads EXCEPT ![t] =
                      [@ EXCEPT !.reported = "success", !.stopped = TRUE, !.pc = "done"]]
    /\ UNCHANGED <<document_qa, heap, status_bar, answer_text, doc_info, log_entries,
                   overlapped, monitorVars, coreVars>>

\* main_tab.py:247-251: when log_error raises the exception leaves the thread
\* before resource_monitor.stop()
ProcessPdfExcept(t, ok) ==
    /\ At(t, "load", "except")
    /\ after_queue' = Append(after_queue, Callback("set_status", "Error processing PDF"))
    /\ IF ok
       THEN /\ log_entries' = Append(log_entries,
                                     [type |-> "ERROR", operation |-> "process_pdf"])
            /\ monitoring' = FALSE
            /\ threads' = [threads EXCEPT ![t] =
                              [@ EXCEPT !.reported = "error", !.stopped = TRUE,
                                        !.pc = "done"]]
       ELSE /\ threads' = [threads EXCEPT ![t] =
                              [@ EXCEPT !.reported = "error", !.log_raised = TRUE,
                                        !.pc = "crashed"]]
            /\ UNCHANGED <<log_entries, monitoring>>
    /\ UNCHANGED <<document_qa, heap, status_bar, answer_text, doc_info, overlapped,
                   monitorVars, coreVars>>

\* main_tab.py:298 reads self.document_qa and calls answer_question on it;
\* document_qa.py:41-43
ProcessQuestionEmbed(t, http) ==
    /\ At(t, "ask", "answer_embed")
    /\ threads' = [threads EXCEPT ![t] =
          IF http.kind = "raise"
          THEN [@ EXCEPT !.obj = document_qa, !.core = "raised", !.pc = "except"]
          ELSE IF QuestionEmbeddingMissing(get_embedding(http))
          THEN [@ EXCEPT !.obj = document_qa, !.answer = MsgEmbedFailed,
                         !.core = "returned", !.pc = "log"]
          ELSE [@ EXCEPT !.obj = document_qa, !.pc = "answer_rank"]]
    /\ UNCHANGED <<document_qa, heap, after_queue, status_bar, answer_text, doc_info,
                   monitoring, log_entries, overlapped, monitorVars, coreVars>>

\* document_qa.py:46-72: the embeddings and chunks of the object are read as
\* they are now; the prompt made of them goes to the backend
ProcessQuestionRank(t) ==
    /\ At(t, "ask", "answer_rank")
    /\ LET session_read == heap[threads[t].obj]
       IN  threads' = [threads EXCEPT ![t] =
              IF session_read.embeddings = << >>
              THEN [@ EXCEPT !.read_phase = session_read.phase, !.answer = MsgNoChunks,
                             !.core = "returned", !.pc = "log"]
              ELSE [@ EXCEPT !.read_phase = session_read.phase,
                             !.pc = "answer_generate"]]
    /\ UNCHANGED <<document_qa, heap, after_queue, status_bar, answer_text, doc_info,
                   monitoring, log_entries, overlapped, monitorVars, coreVars>>

\* document_qa.py:75
ProcessQuestionGenerate(t, http) ==
    /\ At(t, "ask", "answer_generate")
    /\ threads' = [threads EXCEPT ![t] =
          IF http.kind = "raise"
          THEN [@ EXCEPT !.core = "raised", !.pc = "except"]
          ELSE [@ EXCEPT !.answer = generate(http), !.core = "returned", !.pc = "log"]]
    /\ UNCHANGED <<document_qa, heap, after_queue, status_bar, answer_text, doc_info,
                   monitoring, log_entries, overlapped, monitorVars, coreVars>>

\* main_tab.py:301-311: log_query; when it raises the except clause is next
ProcessQuestionLog(t, ok) ==
    /\ At(t, "ask", "log")
    /\ IF ok
       THEN /\ log_entries' = Append(log_entries,
                                     [type |-> "QUERY", answer |-> threads[t].answer])
            /\ threads' = [threads EXCEPT ![t].pc = "finish"]
       ELSE /\ threads' = [threads EXCEPT ![t] =
                              [@ EXCEPT !.log_raised = TRUE, !.pc = "except"]]
            /\ UNCHANGED log_entries
    /\ UNCHANGED <<document_qa, heap, after_queue, status_bar, answer_text, doc_info,
                   monitoring, overlapped, monitorVars, coreVars>>

\* main_tab.py:314-322
ProcessQuestionFinish(t) ==
    /\ At(t, "ask", "finish")
    /\ after_queue' = after_queue \o <<Callback("_update_answer", threads[t].answer),
                                       Callback("set_status", "Question answered")>>
    /\ monitoring' = FALSE
    /\ threads' = [threads EXCEPT ![t] =
                      [@ EXCEPT !.answer_shown = TRUE, !.reported = "success",
                                !.stopped = TRUE, !.pc = "done"]]
    /\ UNCHANGED <<document_qa, heap, status_bar, answer_text, doc_info, log_entries,
                   overlapped, monitorVars, coreVars>>

\* main_tab.py:324-328: when log_error raises the exception leaves the thread
\* before resource_monitor.stop()
ProcessQuestionExcept(t, ok) ==
    /\ At(t, "ask", "except")
    /\ after_queue' = Append(after_queue,
                             Callback("set_status", "Error processing question"))
    /\ IF ok
       THEN /\ log_entries' = Append(log_entries,
                                     [type |-> "ERROR", operation |-> "process_question"])
            /\ monitoring' = FALSE
            /\ threads' = [threads EXCEPT ![t] =
                              [@ EXCEPT !.reported = "error", !.stopped = TRUE,
                                        !.pc = "done"]]
       ELSE /\ threads' = [threads EXCEPT ![t] =
                              [@ EXCEPT !.reported = "error", !.log_raised = TRUE,
                                        !.pc = "crashed"]]
            /\ UNCHANGED <<log_entries, monitoring>>
    /\ UNCHANGED <<document_qa, heap, status_bar, answer_text, doc_info, overlapped,
                   monitorVars, coreVars>>

\* the Tk thread runs the oldest pending callback: _update_document_info
\* (main_tab.py:253-260), status_bar.set_status, or _update_answer (330-334)
RunCallback ==
    /\ after_queue # << >>
    /\ after_queue' = Tail(after_queue)
    /\ LET cb == Head(after_queue)
       IN  CASE cb.fn = "_update_document_info" ->
                    /\ doc_info' = IF document_qa # NoObject
                                   THEN [shown |-> TRUE,
                                         title |-> heap[document_qa].title,
                                         authors |-> heap[document_qa].authors,
                                         chunks |-> Len(heap[document_qa].chunks)]
                                   ELSE doc_info
                    /\ UNCHANGED <<status_bar, answer_text>>
             [] cb.fn = "set_status" ->
                    /\ status_bar' = cb.arg
                    /\ UNCHANGED <<doc_info, answer_text>>
             [] OTHER ->
                    /\ answer_text' = cb.arg
                    /\ UNCHANGED <<doc_info, status_bar>>
    /\ UNCHANGED <<document_qa, heap, threads, monitoring, log_entries, overlapped,
                   monitorVars, coreVars>>

ThreadStep(t) ==
    \/ \E out \in ExtractOutcomes : ProcessPdfExtract(t, out)
    \/ ProcessPdfCreate(t)
    \/ ProcessPdfLoadStart(t)
    \/ \E http \in UiEmbedHttp : ProcessPdfLoadEmbed(t, http)
    \/ ProcessPdfLoaded(t)
    \/ \E ok \in BOOLEAN : ProcessPdfLog(t, ok)
    \/ ProcessPdfFinish(t)
    \/ \E ok \in BOOLEAN : ProcessPdfExcept(t, ok)
    \/ \E http \in UiEmbedHttp : ProcessQuestionEmbed(t, http)
    \/ ProcessQuestionRank(t)
    \/ \E http \in UiGenerateHttp : ProcessQuestionGenerate(t, http)
    \/ \E ok \in BOOLEAN : ProcessQuestionLog(t, ok)
    \/ ProcessQuestionFinish(t)
    \/ \E ok \in BOOLEAN : ProcessQuestionExcept(t, ok)

NextUI ==
    \/ load_pdf
    \/ ask_question
    \/ \E t \in 1..MaxThreads : ThreadStep(t)
    \/ RunCallback

SpecUI == Init /\ [][NextUI]_vars

----------------------------------------------------------------------------
(* The session the user interface holds                                    *)

Finished(t) == threads[t].pc \in {"done", "crashed"}

\* the load threads whose load_document returned
GoodLoads == {t \in 1..Len(threads) : threads[t].kind = "load" /\ threads[t].core = "returned"}

\* the object the last of them loaded, None when there is none
LastGoodObject ==
    IF GoodLoads = {} THEN NoObject
    ELSE threads[CHOOSE t \in GoodLoads : \A u \in GoodLoads : u <= t].obj

\* the operations were used one after the other: no thread was started while
\* another was in flight, none is in flight now, and no Logger call raised
SerialAndIdle ==
    /\ ~overlapped
    /\ InFlight = {}
    /\ \A t \in 1..Len(threads) : ~threads[t].log_raised

\* C13: when the loads and questions are run one after the other, then after
\* every load, failed ones included, self.document_qa is the object of the
\* last load whose load_document returned (None when there was none), so a
\* load that fails part-way leaves the earlier complete session in place.
C13_FailedLoadKeepsSession == SerialAndIdle => document_qa = LastGoodObject

\* C14: whenever answer_question has ranked, the object it read was not one
\* just constructed or one whose load_document was still running.
C14_NeverReadsHalfBuilt ==
    \A t \in 1..Len(threads) :
        threads[t].kind = "ask"
        => threads[t].read_phase \notin {"constructed", "loading"}

\* C15: at most one background thread is in flight in every reachable state.
C15_OneInFlight == Cardinality(InFlight) <= 1

\* C17: when the operations run one after the other and a Logger call of a
\* thread raised, resource monitoring was still stopped by that thread, and
\* if its load_document / answer_question had returned, success was reported
\* and, for a question, the answer was handed to the answer box.
C17_LoggerFailureHarmless ==
    \A t \in 1..Len(threads) :
        (~overlapped /\ Finished(t) /\ threads[t].log_raised)
        => /\ threads[t].stopped
           /\ threads[t].core = "returned"
                  => /\ threads[t].reported = "success"
                     /\ threads[t].kind = "ask" => threads[t].answer_shown

----------------------------------------------------------------------------
(* extract_title and the heuristics of extract_authors, one by one         *)

\* the lines of the text that are not blank, in order
NonBlankLines == SelectSeq(meta_in, LAMBDA l : ~IsEmpty(l))

\* C21: extract_title returns the first line that passes the skip tests among
\* the first 10 non-blank lines, and the sentinel only when none of those 10
\* passes; blank lines do not count towards the 10.
C21_FirstTenNonBlank ==
    MetaReturned
    => LET kept == SelectSeq(PySlice(NonBlankLines, 0, 10), LAMBDA l : ~TitleSkips(l))
       IN  meta_out.title = IF kept = << >> THEN TitleSentinel ELSE kept[1].text

\* the text starts with a title, a comma-separated name line, an affiliation
\* line, a blank line and "Abstract"; no line carries an author label
StartsLikePaper ==
    /\ PySlice(meta_in, 0, 5) = PaperHead
    /\ \A k \in 1..Len(meta_in) : ~meta_in[k].label

\* C22: on such a text the result contains the name line, and the line is
\* collected by the separator heuristic (approach 3), not by an earlier one.
C22_NamesBySeparator ==
    (MetaReturned /\ StartsLikePaper)
    => /\ IsIn(LnNames.text, meta_out.authors)
       /\ ~IsIn(LnNames, meta_out.collected[2])
       /\ IsIn(LnNames, meta_out.collected[3])

\* C22 as the code has it: the result contains the name line, but the line
\* is collected by the affiliation heuristic (approach 2) as the line above
\* the affiliation line; that gives two lines, so the separator and the
\* positional heuristic do not run, and the result is the name line and the
\* affiliation line.
C22_NamesByAffiliation ==
    (MetaReturned /\ StartsLikePaper)
    => /\ IsIn(LnNames.text, meta_out.authors)
       /\ meta_out.collected[1] = << >>
       /\ meta_out.collected[2] = <<LnNames, LnAffil>>
       /\ meta_out.collected[3] = meta_out.collected[2]
       /\ meta_out.collected[4] = meta_out.collected[2]
       /\ meta_out.authors = <<LnNames.text, LnAffil.text>>

\* the paper's head followed by its body has been processed
C22_Witness ==
    /\ MetaReturned
    /\ StartsLikePaper
    /\ Len(meta_in) = 6
    /\ meta_out.authors = <<LnNames.text, LnAffil.text>>

\* the explicit author section as C23 describes it: from the first line with
\* an author label up to, not including, the first later line that is blank
\* or ends the section
SectionUntilBlank ==
    LET n == Len(meta_in)
        labels == {k \in 1..n : meta_in[k].label}
    IN  IF labels = {} THEN << >>
        ELSE LET s == CHOOSE k \in labels : \A m \in labels : k <= m
                 ends == {k \in (s + 1)..n :
                              IsEmpty(meta_in[k]) \/ meta_in[k].section_end}
                 e == IF ends = {} THEN n + 1
                      ELSE CHOOSE k \in ends : \A m \in ends : k <= m
             IN  SubSeq(meta_in, s, e - 1)

\* C23: the explicit-section heuristic collects the label line and the lines
\* after it up to the first blank line or abstract/introduction/keywords
\* line; no line after a blank line that follows the label is collected.
C23_SectionStopsAtBlank ==
    MetaReturned => meta_out.collected[1] = SectionUntilBlank

\* C24: when the separator heuristic starts from an empty list, a line among
\* the first 20 that is not skipped as noise, has no " and " / " & " and no
\* superscript marker is collected by it if and only if it has between 1 and
\* 5 commas.
C24_OneToFiveCommas ==
    (MetaReturned /\ meta_out.collected[2] = << >>)
    => \A k \in 1..Min(Len(meta_in), 20) :
          LET line == meta_in[k]
          IN  (~NotAuthorLine(line) /\ ~line.and_amp /\ ~line.superscript)
              => (IsIn(line, meta_out.collected[3]) <=> line.commas \in 1..5)

----------------------------------------------------------------------------
(* Backend calls of the core                                               *)

\* the question's embedding came back and is a non-empty list
QuestionEmbedded ==
    /\ calls[1].out.kind = "return"
    /\ ~calls[1].out.opt.none
    /\ calls[1].out.opt.list # << >>

\* C25: the calls of one load_document are get_embedding calls only, one per
\* chunk in chunk order, the next chunk only after the call before returned,
\* and all chunks when the load returns.  The calls of one answer_question
\* are one get_embedding call for the question and then at most one generate
\* call, made with the prompt, only after the question's embedding succeeded
\* and with a non-empty store.
C25_CallOrder ==
    /\ result.op = "load"
       => /\ Len(calls) <= Len(chunks)
          /\ \A i \in 1..Len(calls) :
                /\ calls[i].fn = "get_embedding"
                /\ calls[i].arg = chunks[i]
                /\ i < Len(calls) => calls[i].out.kind = "return"
          /\ LoadReturned => Len(calls) = Len(chunks)
    /\ result.op = "ask"
       => /\ Len(calls) <= 2
          /\ Len(calls) >= 1
                => calls[1].fn = "get_embedding" /\ calls[1].arg = question
          /\ Len(calls) = 2
                => /\ calls[2].fn = "generate"
                   /\ calls[2].arg = prompt
                   /\ QuestionEmbedded
                   /\ embeddings # << >>
          /\ AskFinished => Len(calls) >= 1

\* an answer was generated after a load that embedded three chunks
C25_Witness ==
    /\ AskFinished
    /\ Len(calls) = 2
    /\ calls[2].out.kind = "return"
    /\ Len(chunks) = 3
    /\ Len(embeddings) = 3

----------------------------------------------------------------------------
(* split_text run line by line                                             *)

\* the arguments of the calls run line by line: the lengths around the length
\* test and the longest text; steps that are positive, zero and negative
LoopTexts == {PlainText(n) : n \in {0, 1, MinChunkLen - 1, MinChunkLen, MaxTextLen}}
LoopChunkSizes == {-1, 0, 1, 60, MinChunkLen, 130}
LoopOverlaps == {-20, 0, 1, 60, 120, 150}

InitSplitLoop ==
    /\ InitSession
    /\ InitMeta
    /\ InitUI
    /\ InitMonitor
    /\ split_in \in [text : LoopTexts, chunk_size : LoopChunkSizes,
                     overlap : LoopOverlaps]
    /\ split_out = NoSplit
    /\ split_pc = "call"
    /\ split_i = 0
    /\ split_chunks = << >>

\* "for i in range(0, len(text), step)" has a next value: the values of a
\* range go up from 0 while they are below n, down while above it
InRange(i, n, step) == IF step < 0 THEN i > n ELSE i < n

\* pdf_processor.py:25-26: chunks = [], then range() is built and raises for
\* a zero step
SplitEnter ==
    /\ split_pc = "call"
    /\ split_chunks' = << >>
    /\ split_i' = 0
    /\ IF RangeRaises(Step(split_in.chunk_size, split_in.overlap))
       THEN /\ split_out' = [kind |-> "raise", value |-> <<"ValueError">>]
            /\ split_pc' = "done"
       ELSE /\ split_pc' = "for"
            /\ UNCHANGED split_out
    /\ UNCHANGED <<split_in, session, pc, loadLocals, prev_load, askLocals, calls,
                   result, metaVars, monitorVars, uiVars>>

\* pdf_processor.py:26-29: one pass of the loop body, then the next i
SplitIterate ==
    /\ split_pc = "for"
    /\ InRange(split_i, Len(split_in.text), Step(split_in.chunk_size, split_in.overlap))
    /\ LET chunk == PySlice(split_in.text, split_i, split_i + split_in.chunk_size)
       IN  split_chunks' = IF KeepChunk(chunk) THEN Append(split_chunks, chunk)
                           ELSE split_chunks
    /\ split_i' = split_i + Step(split_in.chunk_size, split_in.overlap)
    /\ UNCHANGED <<split_in, split_out, split_pc, session, pc, loadLocals, prev_load,
                   askLocals, calls, result, metaVars, monitorVars, uiVars>>

\* pdf_processor.py:26, 30: the range is used up, chunks is returned
SplitExit ==
    /\ split_pc = "for"
    /\ ~InRange(split_i, Len(split_in.text), Step(split_in.chunk_size, split_in.overlap))
    /\ split_out' = [kind |-> "return", value |-> split_chunks]
    /\ split_pc' = "done"
    /\ UNCHANGED <<split_in, split_i, split_chunks, session, pc, loadLocals, prev_load,
                   askLocals, calls, result, metaVars, monitorVars, uiVars>>

NextSplitLoop == SplitEnter \/ SplitIterate \/ SplitExit

\* the call is the only thing running: it takes its next step
SpecSplitLoop == InitSplitLoop /\ [][NextSplitLoop]_vars /\ WF_vars(NextSplitLoop)

\* C26: every split_text call comes to an end, whatever the text and the
\* integers chunk_size and overlap are: it returns or it raises, it never
\* stays in its loop for ever.
C26_SplitTerminates == <>(split_pc = "done")

\* a call with overlap = chunk_size on the longest text has ended, by raising
C26_Witness ==
    /\ split_pc = "done"
    /\ Len(split_in.text) = MaxTextLen
    /\ split_in.overlap = split_in.chunk_size
    /\ split_out.kind = "raise"

\* line by line the call ends as SplitOutcome says
SplitLoopOutcome ==
    split_pc = "done"
        => split_out = SplitOutcome(split_in.text, split_in.chunk_size, split_in.overlap)

----------------------------------------------------------------------------
(* Embeddings and chunks of the sessions the user interface creates       *)

\* C27: no DocumentQA object ever holds more embeddings than chunks, so a
\* position in the similarity ranking is always a position in chunks.
C27_EmbeddingsWithinChunks ==
    \A o \in 1..Len(heap) : Len(heap[o].embeddings) <= Len(heap[o].chunks)

\* the same for the session of calls made one after the other
SequentialEmbeddingsWithinChunks == Len(embeddings) <= Len(chunks)

----------------------------------------------------------------------------
(* ResourceMonitor on its own: start and stop are called in any order, as  *)
(* load_pdf, ask_question and the background threads of MainTab call them, *)
(* and every _monitor_loop thread runs line by line.  start is one step:   *)
(* a loop thread scheduled between its assignments only adds behaviours.   *)

\* resource_monitor.py:41-49
MonitorStart ==
    /\ Len(loops) < MaxStarts
    /\ start
    /\ UNCHANGED <<uiLeft, coreVars>>

\* resource_monitor.py:51-53, called while the flag is set
MonitorStop ==
    /\ monitoring
    /\ stop
    /\ UNCHANGED <<uiLeft, coreVars>>

LoopAt(l, where) == loops[l] = where

LoopGoes(l, where) ==
    /\ loops' = [loops EXCEPT ![l] = where]
    /\ UNCHANGED <<monitoring, start_time, uiLeft, coreVars>>

\* a sample: the loop thread that took it and the start call whose
\* start_time it was measured from
Sample(l) == [loop |-> l, since |-> start_time]

\* resource_monitor.py:57: "while self.monitoring"
MonitorLoopTest(l) ==
    /\ LoopAt(l, "while")
    /\ ~monitoring \/ Len(timestamps) < MaxSamples
    /\ LoopGoes(l, IF monitoring THEN "timestamps" ELSE "done")
    /\ UNCHANGED <<timestamps, cpu_history, ram_history, gpu_history>>

\* resource_monitor.py:59-60: appended to the list self.timestamps is now
MonitorLoopTimestamp(l) ==
    /\ LoopAt(l, "timestamps")
    /\ timestamps' = Append(timestamps, Sample(l))
    /\ LoopGoes(l, "cpu")
    /\ UNCHANGED <<cpu_history, ram_history, gpu_history>>

\* resource_monitor.py:63-64
MonitorLoopCpu(l) ==
    /\ LoopAt(l, "cpu")
    /\ cpu_history' = Append(cpu_history, Sample(l))
    /\ LoopGoes(l, "ram")
    /\ UNCHANGED <<timestamps, ram_history, gpu_history>>

\* resource_monitor.py:67-69
MonitorLoopRam(l) ==
    /\ LoopAt(l, "ram")
    /\ ram_history' = Append(ram_history, Sample(l))
    /\ LoopGoes(l, "gpu")
    /\ UNCHANGED <<timestamps, cpu_history, gpu_history>>

\* resource_monitor.py:72-95: every branch appends one value
MonitorLoopGpu(l) ==
    /\ LoopAt(l, "gpu")
    /\ gpu_history' = Append(gpu_history, Sample(l))
    /\ LoopGoes(l, "sleep")
    /\ UNCHANGED <<timestamps, cpu_history, ram_history>>

\* resource_monitor.py:97: time.sleep(self.update_interval) is over
MonitorLoopSleep(l) ==
    /\ LoopAt(l, "sleep")
    /\ LoopGoes(l, "while")
    /\ UNCHANGED <<timestamps, cpu_history, ram_history, gpu_history>>

MonitorLoopStep ==
    \E l \in 1..Len(loops) :
        \/ MonitorLoopTest(l)
        \/ MonitorLoopTimestamp(l)
        \/ MonitorLoopCpu(l)
        \/ MonitorLoopRam(l)
        \/ MonitorLoopGpu(l)
        \/ MonitorLoopSleep(l)

NextMonitor == MonitorStart \/ MonitorStop \/ MonitorLoopStep

SpecMonitor == Init /\ [][NextMonitor]_vars

\* the loop threads that are inside an iteration, from the passed test of
\* "while self.monitoring" to the last append
Appending == {l \in 1..Len(loops) : loops[l] \in {"timestamps", "cpu", "ram", "gpu"}}

\* C28: whatever the order of the start and stop calls, at most one
\* _monitor_loop thread is appending samples at any time.
C28_OneLoopAppending == Cardinality(Appending) <= 1

\* the loop threads that have appended some but not all values of a sample
PartWay == {l \in 1..Len(loops) : loops[l] \in {"cpu", "ram", "gpu"}}

\* C29: whenever no loop iteration is part-way through its appends, the four
\* histories have the same length.
C29_EqualLengths ==
    PartWay = {}
        => /\ Len(cpu_history) = Len(timestamps)
           /\ Len(ram_history) = Len(timestamps)
           /\ Len(gpu_history) = Len(timestamps)

----------------------------------------------------------------------------
(* What the PDF_LOAD entries of the log say                                *)

PdfLoadEntries == {k \in 1..Len(log_entries) : log_entries[k].type = "PDF_LOAD"}

\* C30: every PDF_LOAD entry of the log holds the title and the authors
\* extracted from the file its pdf_path names, however the background load
\* threads interleave.
C30_LogEntryOfOwnFile ==
    \A k \in PdfLoadEntries :
        /\ log_entries[k].title = extract_title(log_entries[k].pdf_path.lines)
        /\ log_entries[k].authors = extract_authors(log_entries[k].pdf_path.lines)

\* the same when no two background threads have been in flight at once
SerialLogEntryOfOwnFile == ~overlapped => C30_LogEntryOfOwnFile

====
